---- MODULE Spec2Model ----
(***************************************************************************)
(* A model of crab-gnupg's GPG wrapper (src/src/gnupg.rs): the             *)
(* configuration object, its constructor GPG::init, and the operations     *)
(* gen_key, list_keys, encrypt, decrypt, set_option, clear_option,         *)
(* set_env and clear_env, together with the argument builders they use.    *)
(*                                                                         *)
(* Representation.                                                         *)
(*   Option<T>      a sequence of length <= 1: <<>> is None, <<x>> Some(x) *)
(*   String         a TLA+ string, concatenated with \o, where only the    *)
(*                  whole value matters (arguments, paths, messages)       *)
(*   Text           a sequence of tokens where the characters matter       *)
(*                  (passphrases, key-generation parameters, paths): the   *)
(*                  special characters "_", "-", ".", "/", " " and "\n"    *)
(*                  are tokens of their own; Join gives the String         *)
(*   f32 version    an integer number of hundredths (2.1 is 210)           *)
(*   Result<T, E>   a record with ok = TRUE and value, or ok = FALSE and   *)
(*                  error_type, msg, cmd_result                            *)
(***************************************************************************)
EXTENDS Integers, Sequences, FiniteSets, TLC

VARIABLES
    gpg,      \* Option<GPG>: the configuration object the caller holds
    init0,    \* Option<GPG>: the object as GPG::init returned it
    last,     \* the call that has just returned: operation, inputs, driver calls, result
    procs,    \* concurrent invocations on the shared configuration (ConcSpec)
    clock     \* the wall clock read by Local::now() (ConcSpec)

vars == <<gpg, init0, last, procs, clock>>

----------------------------------------------------------------------------
(* Bounds of the model                                                     *)

\* number of distinct clock readings an operation can observe
MaxClock == 2
\* longest recipient list of an encrypt request
MaxRecipients == 1
\* number of concurrent invocations in ConcSpec
NumProcs == 2

----------------------------------------------------------------------------
(* Option, Result and Text helpers                                         *)

None == <<>>
Some(x) == <<x>>
IsSome(o) == Len(o) = 1
IsNone(o) == Len(o) = 0

RECURSIVE Join(_)
\* the String a Text stands for
Join(t) == IF t = <<>> THEN "" ELSE Head(t) \o Join(Tail(t))

\* GPGError::new(error_type(msg), cmd_result) wrapped in Err
Err(error_type, msg, cmd_result) ==
    [ok |-> FALSE, error_type |-> error_type, msg |-> msg, cmd_result |-> cmd_result]

Ok(value) == [ok |-> TRUE, value |-> value]

\* str::replace("_", "-") on a Text
ReplaceUnderscore(t) == [i \in 1..Len(t) |-> IF t[i] = "_" THEN "-" ELSE t[i]]

\* the characters with the White_Space property, which str::trim strips:
\* U+0020, U+0009 to U+000D, U+0085, U+00A0 and U+1680 (the remaining ones,
\* of U+2000 and above, cannot be written in a string of the model)
Whitespace == {" ", "\t", "\n", "", "\f", "\r", "", " ", " "}

RECURSIVE TrimStart(_)
TrimStart(t) ==
    IF t # <<>> /\ Head(t) \in Whitespace THEN TrimStart(Tail(t)) ELSE t

RECURSIVE TrimEnd(_)
TrimEnd(t) ==
    IF t # <<>> /\ t[Len(t)] \in Whitespace
    THEN TrimEnd(SubSeq(t, 1, Len(t) - 1)) ELSE t

\* str::trim on a Text
Trim(t) == TrimEnd(TrimStart(t))

RECURSIVE SplitLines(_, _)
\* the lines of a Text: cur is the line being read; a final unterminated
\* line is kept when it is not empty
SplitLines(t, cur) ==
    IF t = <<>> THEN (IF cur = <<>> THEN <<>> ELSE <<cur>>)
    ELSE IF Head(t) = "\n" THEN <<cur>> \o SplitLines(Tail(t), <<>>)
    ELSE SplitLines(Tail(t), Append(cur, Head(t)))

Lines(t) == SplitLines(t, <<>>)

----------------------------------------------------------------------------
(* The external collaborators (not part of gnupg.rs)                       *)

\* characters a passphrase may not contain
BannedPassphraseChars == {"\n", "\r"}

\* utils::is_passphrase_valid
is_passphrase_valid(p) ==
    /\ p # <<>>
    /\ \A i \in 1..Len(p) : p[i] \notin BannedPassphraseChars

\* utils::check_is_dir: the directories that exist
Directories == {"/home/u/.gnupg", "/home/u/gnupg_output/", "/keys", "/tmp/out"}

check_is_dir(d) == Join(d) \in Directories

\* utils::get_or_create_gpg_homedir
get_or_create_gpg_homedir == <<"/", "home", "/", "u", "/", ".", "gnupg">>

\* utils::get_or_create_gpg_output_dir
get_or_create_gpg_output_dir ==
    <<"/", "home", "/", "u", "/", "gnupg", "_", "output", "/">>

\* f32 value of "<major>.<minor>", in hundredths
F32OfMajorMinor(major, minor) ==
    major * 100 + (IF minor < 10 THEN minor * 10 ELSE minor)

\* the dotted string of a list of version components
RECURSIVE Dotted(_)
Dotted(c) ==
    IF c = <<>> THEN ""
    ELSE IF Len(c) = 1 THEN ToString(c[1])
    ELSE ToString(c[1]) \o "." \o Dotted(Tail(c))

\* the lines of a probe output that carry the version field
VersionLines(output) ==
    {i \in 1..Len(output) : output[i].field = "version" /\ Len(output[i].value) >= 2}

HasVersion(cmd_result) == VersionLines(cmd_result.output) # {}

\* utils::get_gpg_version: (f32, String) read from the probe's output; it
\* returns a plain pair, so for an output with no usable version field it
\* has nothing but a fallback pair to give
get_gpg_version(cmd_result) ==
    IF HasVersion(cmd_result)
    THEN LET i == CHOOSE j \in VersionLines(cmd_result.output) :
                      \A k \in VersionLines(cmd_result.output) : j <= k
             c == cmd_result.output[i].value
         IN  <<F32OfMajorMinor(c[1], c[2]), Dotted(c)>>
    ELSE <<0, "">>

\* response::CmdResult
CmdResult(success, output, status, operation) ==
    [success |-> success, output |-> output, status |-> status, operation |-> operation]

VersionLine(c) == [field |-> "version", value |-> c]
OtherLine == [field |-> "pubkey", value |-> <<>>]

\* what the probe (--list-config --with-colons) can print
ProbeOutputs ==
    { <<VersionLine(<<2, 4, 6>>)>>,
      <<OtherLine, VersionLine(<<2, 0, 30>>)>>,
      <<VersionLine(<<2, 1, 23>>)>>,
      <<OtherLine>>,
      <<VersionLine(<<>>)>> }

\* what a listing can print: the record kinds of a colon listing
ListOutputs ==
    { <<>>, <<"pub", "fpr", "uid", "sub", "fpr">> }

OutputsOf(operation) ==
    CASE operation = "Verify" -> ProbeOutputs
      [] operation = "ListKey" -> ListOutputs
      [] OTHER -> {<<>>}

\* process::handle_cmd_io, seen from its caller: everything one invocation
\* of the process driver can return for an operation
DriverOutcomes(operation) ==
    {Ok(CmdResult(TRUE, o, <<>>, operation)) : o \in OutputsOf(operation)}
    \cup
    { Err("FailedToStartProcess", "spawn failed", None),
      Err("WriteFailError", "write failed", None),
      Err("GPGProcessError", "gpg exited with an error",
          Some(CmdResult(FALSE, <<>>, <<"FAILURE">>, operation))) }

\* the arguments of one handle_cmd_io call, in parameter order
DriverCall(cmd_args, passphrase, version, homedir, options, env, file, file_path, byte_input, write, read, ops) ==
    [cmd_args |-> cmd_args, passphrase |-> passphrase, version |-> version,
     homedir |-> homedir, options |-> options, env |-> env, file |-> file,
     file_path |-> file_path, byte_input |-> byte_input, write |-> write,
     read |-> read, ops |-> ops]

\* what an operation did: the driver calls it made, in order, and what it returned
Done(calls, result) == [calls |-> calls, result |-> result]

----------------------------------------------------------------------------
(* GPG::init                                                               *)

GPG(homedir, output_dir, env, keyrings, secret_keyring, options, armor, version, full_version) ==
    [homedir |-> homedir, output_dir |-> output_dir, env |-> env,
     keyrings |-> keyrings, secret_keyring |-> secret_keyring, options |-> options,
     armor |-> armor, version |-> version, full_version |-> full_version]

\* GPG::init(homedir, output_dir, armor); outcome is what the driver returns
\* when the probe is run
init(homedir, output_dir, armor, outcome) ==
    LET h0 == IF IsSome(homedir) THEN homedir[1] ELSE <<>>
        o0 == IF IsSome(output_dir) THEN output_dir[1] ELSE <<>>
        h_d == IF h0 = <<>> THEN get_or_create_gpg_homedir ELSE h0
        o_d == IF o0 = <<>> THEN get_or_create_gpg_output_dir ELSE o0
        call == DriverCall(Some(<<"--list-config", "--with-colons">>), None, 0, h_d,
                           None, None, None, None, None, FALSE, FALSE, "Verify")
    IN  IF ~check_is_dir(h_d)
        THEN Done(<<>>, Err("OutputDirError", Join(h_d) \o " is not a directory", None))
        ELSE IF ~check_is_dir(o_d)
        THEN Done(<<>>, Err("OutputDirError", Join(o_d) \o " is not a directory", None))
        ELSE IF outcome.ok
        THEN LET version == get_gpg_version(outcome.value)
             IN  Done(<<call>>, Ok(GPG(h_d, o_d, None, None, None, None, armor,
                                       version[1], version[2])))
        ELSE Done(<<call>>, outcome)

----------------------------------------------------------------------------
(* HashMap<String, String>                                                 *)

\* HashMap::iter: the orders the keys S of a map can be iterated in. Every
\* map takes a fresh RandomState, so each order of its keys can occur.
IterOrders(S) ==
    {order \in [1..Cardinality(S) -> S] :
        \A i, j \in 1..Cardinality(S) : order[i] = order[j] => i = j}

\* HashMap::insert
Insert(m, k, v) == [x \in DOMAIN m \cup {k} |-> IF x = k THEN v ELSE m[x]]

\* HashMap::entry(k).or_insert(v)
OrInsert(m, k, v) == IF k \in DOMAIN m THEN m ELSE Insert(m, k, v)

\* HashMap::remove, the map that is left
Remove(m, k) == [x \in DOMAIN m \ {k} |-> m[x]]

EmptyMap == [x \in {} |-> <<>>]

\* a caller's map: a set of <<key Text, value Text>> pairs with distinct keys
CallerMap(pairs) ==
    [k \in {p[1] : p \in pairs} |-> (CHOOSE p \in pairs : p[1] = k)[2]]

----------------------------------------------------------------------------
(* GPG::gen_key and GPG::gen_key_input                                     *)

\* env::var("LOGNAME") and hostname::get() of the running process
LogName == "tester"
HostName == "box"

RECURSIVE InsertArgs(_, _, _)
\* lines 189-191: params.insert(key.replace("_", "-"), value.trim()) for
\* each entry of args, in the order keys lists them
InsertArgs(params, args, keys) ==
    IF keys = <<>> THEN params
    ELSE LET key == CHOOSE k \in DOMAIN args : Join(k) = Head(keys)
         IN  InsertArgs(Insert(params, Join(ReplaceUnderscore(key)), Trim(args[key])),
                        args, Tail(keys))

RECURSIVE ParamLines(_, _)
\* lines 217-219: one "key: value\n" per entry, in the order keys lists them
ParamLines(params, keys) ==
    IF keys = <<>> THEN <<>>
    ELSE <<Head(keys), ": ">> \o params[Head(keys)] \o <<"\n">>
         \o ParamLines(params, Tail(keys))

\* the keys of the caller's map, as Strings
ArgKeys(args) == IF IsSome(args) THEN {Join(k) : k \in DOMAIN args[1]} ELSE {}

\* lines 187-215: params with the caller's entries, iterated in the order
\* given, and the defaults
KeyParams(args, order) ==
    LET p0 == IF IsSome(args) THEN InsertArgs(EmptyMap, args[1], order) ELSE EmptyMap
        p1 == OrInsert(p0, "Key-Type", <<"RSA">>)
        p2 == IF "Key-Curve" \notin DOMAIN p1
              THEN OrInsert(p1, "Key-Length", <<"2048">>) ELSE p1
        p3 == OrInsert(p2, "Expire-Date", <<"0">>)
        p4 == OrInsert(p3, "Name-Real", <<"AutoGenerated Key">>)
    IN  OrInsert(p4, "Name-Email", <<LogName \o "@" \o HostName>>)

\* the iteration orders of one gen_key_input run: orders[1] is the order of
\* the caller's map (line 189), orders[2] that of params once Key-Type is
\* removed (line 217)
KeyOrders(args) ==
    {<<o1, o2>> :
        o1 \in IterOrders(ArgKeys(args)),
        o2 \in IterOrders(DOMAIN KeyParams(args, CHOOSE o \in IterOrders(ArgKeys(args)) : TRUE)
                          \ {"Key-Type"})}

\* where no map is iterated
NoOrders == <<<<>>, <<>>>>

\* the iteration orders one run of an operation can meet
RunOrders(op, req) == IF op = "gen_key" THEN KeyOrders(req.args) ELSE {NoOrders}

\* GPG::gen_key_input(args, passphrase): the Text given to gpg --gen-key,
\* the maps iterating in the orders given
gen_key_input(self, args, passphrase, orders) ==
    LET params == KeyParams(args, orders[1])
        first == <<"Key-Type", ": ">> \o params["Key-Type"] \o <<"\n">>
        rest == Remove(params, "Key-Type")
    IN  first
        \o ParamLines(rest, orders[2])
        \o (IF IsNone(passphrase) THEN <<"%no-protection", "\n">> ELSE <<>>)
        \o <<"%commit", "\n">>

\* lines 139-147: the passphrase check of gen_key, Some(error) when it fails
GenKeyCheck(key_passphrase) ==
    IF IsSome(key_passphrase) /\ ~is_passphrase_valid(key_passphrase[1])
    THEN Some(Err("PassphraseError", "key passphrase invalid", None))
    ELSE None

\* lines 149-163: the driver call of gen_key for the key parameters input
GenKeyCall(self, key_passphrase, input) ==
    DriverCall(Some(<<"--gen-key">>), key_passphrase, self.version, self.homedir,
               self.options, self.env, None, None, Some(input), TRUE, FALSE,
               "GenerateKey")

\* gen_key as it would be if the passphrase were written into the key
\* parameters (a "Passphrase:" line) instead of being left to the driver
gen_key_passphrase_line(self, key_passphrase, args, orders, outcome) ==
    IF IsSome(GenKeyCheck(key_passphrase))
    THEN Done(<<>>, GenKeyCheck(key_passphrase)[1])
    ELSE LET text == gen_key_input(self, args, key_passphrase, orders)
             input == IF IsSome(key_passphrase)
                      THEN SubSeq(text, 1, Len(text) - 2)
                           \o <<"Passphrase", ": ">> \o key_passphrase[1]
                           \o <<"\n", "%commit", "\n">>
                      ELSE text
         IN  Done(<<GenKeyCall(self, key_passphrase, input)>>, outcome)

\* GPG::gen_key(key_passphrase, args)
gen_key(self, key_passphrase, args, orders, outcome) ==
    IF IsSome(GenKeyCheck(key_passphrase))
    THEN Done(<<>>, GenKeyCheck(key_passphrase)[1])
    ELSE Done(<<GenKeyCall(self, key_passphrase,
                           gen_key_input(self, args, key_passphrase, orders))>>,
              outcome)

----------------------------------------------------------------------------
(* GPG::list_keys                                                          *)

RECURSIVE DecodeRecords(_, _)
\* one ListKeyResult per "pub" record; "uid" and "sub" records attach to the
\* key that is open, records of other kinds are skipped
DecodeRecords(records, keys) ==
    IF records = <<>> THEN keys
    ELSE LET r == Head(records)
             n == Len(keys)
         IN  CASE r = "pub" ->
                    DecodeRecords(Tail(records),
                                  Append(keys, [user_ids |-> 0, subkeys |-> 0]))
               [] r = "uid" /\ n > 0 ->
                    DecodeRecords(Tail(records),
                                  [keys EXCEPT ![n].user_ids = @ + 1])
               [] r = "sub" /\ n > 0 ->
                    DecodeRecords(Tail(records),
                                  [keys EXCEPT ![n].subkeys = @ + 1])
               [] OTHER -> DecodeRecords(Tail(records), keys)

\* utils::decode_list_key_result
decode_list_key_result(cmd_result) == DecodeRecords(cmd_result.output, <<>>)

\* the arguments of list_keys as they would be if the keygrip flag were
\* asked for only above version 2.1
ListKeysArgs_keygrip_above(self, secret, keys, signature) ==
    LET mode == IF secret THEN "secret-keys"
                ELSE IF signature THEN "sigs" ELSE "keys"
        a0 == <<"--list-" \o mode, "--fingerprint", "--fingerprint">>
        a1 == IF self.version > 210 THEN Append(a0, "--with-keygrip") ELSE a0
    IN  IF IsSome(keys) THEN a1 \o keys[1] ELSE a1

\* lines 242-260: the arguments of list_keys
ListKeysArgs(self, secret, keys, signature) ==
    LET mode == IF secret THEN "secret-keys"
                ELSE IF signature THEN "sigs" ELSE "keys"
        a0 == <<"--list-" \o mode, "--fingerprint", "--fingerprint">>
        a1 == IF self.version >= 210 THEN Append(a0, "--with-keygrip") ELSE a0
    IN  IF IsSome(keys) THEN a1 \o keys[1] ELSE a1

\* lines 261-274: the driver call of list_keys
ListKeysCall(self, args) ==
    DriverCall(Some(args), None, self.version, self.homedir, self.options,
               self.env, None, None, None, FALSE, FALSE, "ListKey")

\* lines 275-282: what list_keys returns for what the driver returned
ListKeysResult(outcome) ==
    IF outcome.ok THEN Ok(decode_list_key_result(outcome.value)) ELSE outcome

\* list_keys as it would be if a driver error were replaced by a new one
list_keys_wrapped_error(self, secret, keys, signature, outcome) ==
    LET call == ListKeysCall(self, ListKeysArgs(self, secret, keys, signature))
    IN  IF outcome.ok
        THEN Done(<<call>>, Ok(decode_list_key_result(outcome.value)))
        ELSE Done(<<call>>, Err("GPGProcessError", "list keys failed", None))

\* GPG::list_keys(secret, keys, signature)
list_keys(self, secret, keys, signature, outcome) ==
    Done(<<ListKeysCall(self, ListKeysArgs(self, secret, keys, signature))>>,
         ListKeysResult(outcome))

----------------------------------------------------------------------------
(* GPG::encrypt and GPG::gen_encrypt_args                                  *)

\* the index of the last "." of a path, 0 when it has none
LastDot(path) ==
    IF \E i \in 1..Len(path) : path[i] = "."
    THEN CHOOSE i \in 1..Len(path) :
             path[i] = "." /\ \A j \in (i + 1)..Len(path) : path[j] # "."
    ELSE 0

\* utils::get_file_extension: the extension of the input path, "gpg" when
\* there is no path or the path has no extension
get_file_extension(file_path) ==
    IF IsSome(file_path) /\ LastDot(file_path[1]) > 0
          /\ LastDot(file_path[1]) < Len(file_path[1])
    THEN Join(SubSeq(file_path[1], LastDot(file_path[1]) + 1, Len(file_path[1])))
    ELSE "gpg"

\* utils::set_output_without_confirmation: --output <path>, after --yes when
\* the path exists already
set_output_without_confirmation(args, output, exists) ==
    (IF exists THEN Append(args, "--yes") ELSE args) \o <<"--output", output>>

\* Local::now().format("%Y%m%d-%H:%M:%S:%9f") at clock reading now
time_stamp(now) == "20240101-00:00:00:00000000" \o ToString(now)

RECURSIVE RecipientArgs(_)
\* lines 404-406
RecipientArgs(recipients) ==
    IF recipients = <<>> THEN <<>>
    ELSE <<"--recipient", Head(recipients)>> \o RecipientArgs(Tail(recipients))

\* gen_encrypt_args as it would be if the extra arguments were appended
\* before the trust model
gen_encrypt_args_extra_before_trust(self, file_path, recipients, sign, sign_key, symmetric, symmetric_algo, always_trust, passphrase, output, extra_args, now, exists) ==
    LET a1 == IF symmetric
              THEN <<"--symmetric", "--no-symkey-cache">>
                   \o (IF IsSome(symmetric_algo)
                       THEN <<"--personal-cipher-preferences", symmetric_algo[1]>>
                       ELSE <<>>)
              ELSE <<>>
        t1 == IF symmetric THEN "pass_" ELSE ""
        a2 == IF IsSome(recipients)
              THEN a1 \o <<"--encrypt">> \o RecipientArgs(recipients[1]) ELSE a1
        encrypt_type == IF IsSome(recipients) THEN t1 \o "keys_" ELSE t1
        a3 == IF self.armor THEN Append(a2, "--armor") ELSE a2
        out == Join(self.output_dir) \o encrypt_type \o "_encrypted_file_"
               \o time_stamp(now) \o "." \o get_file_extension(file_path)
        a4 == IF IsSome(output)
              THEN set_output_without_confirmation(a3, output[1], exists)
              ELSE a3 \o <<"--output", out>>
        a5 == IF sign
              THEN (IF IsSome(sign_key)
                    THEN a4 \o <<"--sign", "--default-key", sign_key[1]>>
                    ELSE Append(a4, "--sign"))
              ELSE a4
        a6 == IF IsSome(extra_args) THEN a5 \o extra_args[1] ELSE a5
        a7 == IF always_trust THEN a6 \o <<"--trust-model", "always">> ELSE a6
    IN  IF symmetric /\ IsNone(passphrase)
        THEN Err("PassphraseError",
                 "passphrase is required if encrypting symmetrically ", None)
        ELSE IF Len(a2) = 0
        THEN Err("InvalidArgumentError",
                 "Please choose symmetric or keys to encrypt your file", None)
        ELSE Ok(a7)

\* GPG::gen_encrypt_args; now is the clock reading of Local::now(), exists
\* whether the explicit output path exists
gen_encrypt_args(self, file_path, recipients, sign, sign_key, symmetric, symmetric_algo, always_trust, passphrase, output, extra_args, now, exists) ==
    LET a1 == IF symmetric
              THEN <<"--symmetric", "--no-symkey-cache">>
                   \o (IF IsSome(symmetric_algo)
                       THEN <<"--personal-cipher-preferences", symmetric_algo[1]>>
                       ELSE <<>>)
              ELSE <<>>
        t1 == IF symmetric THEN "pass_" ELSE ""
        a2 == IF IsSome(recipients)
              THEN a1 \o <<"--encrypt">> \o RecipientArgs(recipients[1]) ELSE a1
        encrypt_type == IF IsSome(recipients) THEN t1 \o "keys_" ELSE t1
        a3 == IF self.armor THEN Append(a2, "--armor") ELSE a2
        out == Join(self.output_dir) \o encrypt_type \o "_encrypted_file_"
               \o time_stamp(now) \o "." \o get_file_extension(file_path)
        a4 == IF IsSome(output)
              THEN set_output_without_confirmation(a3, output[1], exists)
              ELSE a3 \o <<"--output", out>>
        a5 == IF sign
              THEN (IF IsSome(sign_key)
                    THEN a4 \o <<"--sign", "--default-key", sign_key[1]>>
                    ELSE Append(a4, "--sign"))
              ELSE a4
        a6 == IF always_trust THEN a5 \o <<"--trust-model", "always">> ELSE a5
        a7 == IF IsSome(extra_args) THEN a6 \o extra_args[1] ELSE a6
    IN  IF symmetric /\ IsNone(passphrase)
        THEN Err("PassphraseError",
                 "passphrase is required if encrypting symmetrically ", None)
        ELSE IF Len(a2) = 0
        THEN Err("InvalidArgumentError",
                 "Please choose symmetric or keys to encrypt your file", None)
        ELSE Ok(a7)

\* lines 308-317: the passphrase check of encrypt, Some(error) when it fails
EncryptCheck(encryption_option) ==
    LET p == encryption_option.passphrase
    IN  IF IsSome(p) /\ ~is_passphrase_valid(p[1])
        THEN Some(Err("PassphraseError", "passphrase invalid", None))
        ELSE None

\* lines 320-331: the arguments of encrypt
EncryptArgs(self, encryption_option, now, exists) ==
    gen_encrypt_args(self, encryption_option.file_path,
                     encryption_option.recipients, encryption_option.sign,
                     encryption_option.sign_key, encryption_option.symmetric,
                     encryption_option.symmetric_algo, encryption_option.always_trust,
                     encryption_option.passphrase, encryption_option.output,
                     encryption_option.extra_args, now, exists)

\* lines 340-353: the driver call of encrypt for built arguments cmd_args
EncryptCall(self, encryption_option, cmd_args) ==
    DriverCall(Some(cmd_args), encryption_option.passphrase, self.version,
               self.homedir, self.options, self.env, encryption_option.file,
               encryption_option.file_path, None, TRUE, TRUE, "Encrypt")

\* encrypt as it would be if an error of the argument builder were dropped
\* and the process run with no arguments
encrypt_ignoring_args_error(self, encryption_option, now, exists, outcome) ==
    LET check == EncryptCheck(encryption_option)
        args == EncryptArgs(self, encryption_option, now, exists)
    IN  IF IsSome(check)
        THEN Done(<<>>, check[1])
        ELSE Done(<<EncryptCall(self, encryption_option,
                                IF args.ok THEN args.value ELSE <<>>)>>,
                  outcome)

\* encrypt as it would be if a failed process were run a second time
encrypt_retrying(self, encryption_option, now, exists, outcome) ==
    LET check == EncryptCheck(encryption_option)
        args == EncryptArgs(self, encryption_option, now, exists)
        call == EncryptCall(self, encryption_option, args.value)
    IN  IF IsSome(check)
        THEN Done(<<>>, check[1])
        ELSE IF ~args.ok
        THEN Done(<<>>, args)
        ELSE Done(IF outcome.ok THEN <<call>> ELSE <<call, call>>, outcome)

\* GPG::encrypt(encryption_option)
encrypt(self, encryption_option, now, exists, outcome) ==
    LET check == EncryptCheck(encryption_option)
        args == EncryptArgs(self, encryption_option, now, exists)
    IN  IF IsSome(check)
        THEN Done(<<>>, check[1])
        ELSE IF ~args.ok
        THEN Done(<<>>, args)
        ELSE Done(<<EncryptCall(self, encryption_option, args.value)>>, outcome)

----------------------------------------------------------------------------
(* GPG::decrypt and GPG::gen_decrypt_args                                  *)

\* GPG::gen_decrypt_args
gen_decrypt_args(self, file_path, recipient, always_trust, output, extra_args, now, exists) ==
    LET a0 == <<"--decrypt">>
        a1 == IF IsSome(recipient) THEN a0 \o <<"--recipient", recipient[1]>> ELSE a0
        a2 == IF always_trust THEN a1 \o <<"--trust-model", "always">> ELSE a1
        out == Join(self.output_dir) \o "decrypted_file_" \o time_stamp(now) \o "."
               \o get_file_extension(file_path)
        a3 == IF IsSome(output)
              THEN set_output_without_confirmation(a2, output[1], exists)
              ELSE a2 \o <<"--output", out>>
    IN  IF IsSome(extra_args) THEN a3 \o extra_args[1] ELSE a3

\* the passphrase decrypt would forward if it forgot the symmetric one
DecryptPass_key_only(decrypt_option) == decrypt_option.key_passphrase

\* lines 473-493: the passphrase decrypt forwards
DecryptPass(decrypt_option) ==
    IF IsSome(decrypt_option.key_passphrase) THEN decrypt_option.key_passphrase
    ELSE IF IsSome(decrypt_option.passphrase) THEN decrypt_option.passphrase
    ELSE None

\* lines 477-493: the passphrase check of decrypt, Some(error) when it fails
DecryptCheck(decrypt_option) ==
    LET k_p == decrypt_option.key_passphrase
        p == decrypt_option.passphrase
    IN  IF IsSome(k_p)
        THEN (IF ~is_passphrase_valid(k_p[1])
              THEN Some(Err("PassphraseError", "key passphrase invalid", None))
              ELSE None)
        ELSE IF IsSome(p)
        THEN (IF ~is_passphrase_valid(p[1])
              THEN Some(Err("PassphraseError", "passphrase invalid", None))
              ELSE None)
        ELSE None

\* lines 495-501: the arguments of decrypt
DecryptArgs(self, decrypt_option, now, exists) ==
    gen_decrypt_args(self, decrypt_option.file_path, decrypt_option.recipient,
                     decrypt_option.always_trust, decrypt_option.output,
                     decrypt_option.extra_args, now, exists)

\* lines 503-516: the driver call of decrypt for built arguments cmd_args
DecryptCall(self, decrypt_option, cmd_args) ==
    DriverCall(Some(cmd_args), DecryptPass(decrypt_option), self.version,
               self.homedir, self.options, self.env, decrypt_option.file,
               decrypt_option.file_path, None, TRUE, TRUE, "Decrypt")

\* decrypt as it would be if the symmetric passphrase were forwarded
\* without being validated
decrypt_unvalidated(self, decrypt_option, now, exists, outcome) ==
    LET k_p == decrypt_option.key_passphrase
    IN  IF IsSome(k_p) /\ ~is_passphrase_valid(k_p[1])
        THEN Done(<<>>, Err("PassphraseError", "key passphrase invalid", None))
        ELSE Done(<<DecryptCall(self, decrypt_option,
                                DecryptArgs(self, decrypt_option, now, exists))>>,
                  outcome)

\* GPG::decrypt(decrypt_option)
decrypt(self, decrypt_option, now, exists, outcome) ==
    LET check == DecryptCheck(decrypt_option)
    IN  IF IsSome(check)
        THEN Done(<<>>, check[1])
        ELSE Done(<<DecryptCall(self, decrypt_option,
                                DecryptArgs(self, decrypt_option, now, exists))>>,
                  outcome)

----------------------------------------------------------------------------
(* set_option, clear_option, set_env, clear_env                            *)

set_option(self, options) == [self EXCEPT !.options = Some(options)]

clear_option(self) == [self EXCEPT !.options = None]

set_env(self, env) == [self EXCEPT !.env = Some(env)]

\* clear_env as it would be if it reset the options with the environment
clear_env_and_options(self) == [self EXCEPT !.env = None, !.options = None]

clear_env(self) == [self EXCEPT !.env = None]

----------------------------------------------------------------------------
(* EncryptOption and DecryptOption                                         *)

EncryptOption(file, file_path, recipients, sign, sign_key, symmetric, symmetric_algo, always_trust, passphrase, output, extra_args) ==
    [file |-> file, file_path |-> file_path, recipients |-> recipients,
     sign |-> sign, sign_key |-> sign_key, symmetric |-> symmetric,
     symmetric_algo |-> symmetric_algo, always_trust |-> always_trust,
     passphrase |-> passphrase, output |-> output, extra_args |-> extra_args]

\* EncryptOption::default
EncryptOption_default(file, file_path, recipients, output) ==
    EncryptOption(file, file_path, recipients, FALSE, None, FALSE, None, TRUE, None,
                  output, None)

\* EncryptOption::with_symmetric
EncryptOption_with_symmetric(file, file_path, symmetric_algo, passphrase, output) ==
    EncryptOption(file, file_path, None, FALSE, None, TRUE, symmetric_algo, TRUE,
                  passphrase, output, None)

\* EncryptOption::with_key_and_symmetric
EncryptOption_with_key_and_symmetric(file, file_path, recipients, symmetric_algo, passphrase, output) ==
    EncryptOption(file, file_path, recipients, FALSE, None, TRUE, symmetric_algo,
                  TRUE, passphrase, output, None)

DecryptOption(file, file_path, recipient, always_trust, passphrase, key_passphrase, output, extra_args) ==
    [file |-> file, file_path |-> file_path, recipient |-> recipient,
     always_trust |-> always_trust, passphrase |-> passphrase,
     key_passphrase |-> key_passphrase, output |-> output,
     extra_args |-> extra_args]

\* DecryptOption::default
DecryptOption_default(file, file_path, recipient, key_passphrase, output) ==
    DecryptOption(file, file_path, recipient, TRUE, None, key_passphrase, output, None)

\* DecryptOption::with_symmetric
DecryptOption_with_symmetric(file, file_path, passphrase, output) ==
    DecryptOption(file, file_path, None, TRUE, passphrase, None, output, None)

----------------------------------------------------------------------------
(* enums::TrustLevel                                                       *)

\* the variants of TrustLevel
TrustLevel == {"Expired", "Undefined", "Never", "Marginal", "Fully", "Ultimate"}

\* TrustLevel::value as it would be with the numbers of Never and Marginal
\* exchanged
TrustLevel_value_exchanged(self) ==
    CASE self = "Expired" -> 1
      [] self = "Undefined" -> 2
      [] self = "Never" -> 4
      [] self = "Marginal" -> 3
      [] self = "Fully" -> 5
      [] self = "Ultimate" -> 6

\* TrustLevel::value, a u8
TrustLevel_value(self) ==
    CASE self = "Expired" -> 1
      [] self = "Undefined" -> 2
      [] self = "Never" -> 3
      [] self = "Marginal" -> 4
      [] self = "Fully" -> 5
      [] self = "Ultimate" -> 6

----------------------------------------------------------------------------
(* The inputs the operations are called with                               *)

Booleans == {TRUE, FALSE}

\* two passphrases that pass validation and one that does not
ValidPassphrases == {<<"correct horse">>, <<"hunter2">>}
Passphrases == ValidPassphrases \cup {<<"bad", "\n", "phrase">>}
OptPassphrases == {None} \cup {Some(p) : p \in Passphrases}

Clock == 0..(MaxClock - 1)

\* the arguments of GPG::init
InitHomedirs == {None, Some(<<>>), Some(<<"/", "nodir">>)}
InitOutputDirs == {None, Some(<<"/", "tmp", "/", "out">>), Some(<<"/", "nofile">>)}

\* the maps gen_key is called with
KeyArgs ==
    { None,
      Some(EmptyMap),
      Some(CallerMap({<<<<"Name", "_", "Real">>, <<"\r", "\n", "Joe Tester", " ">>>>})),
      Some(CallerMap({<<<<"Key", "_", "Type">>, <<"DSA">>>>,
                      <<<<"Key", "-", "Type">>, <<"ELG">>>>,
                      <<<<"Key", "_", "Length">>, <<"1024">>>>})),
      Some(CallerMap({<<<<"Key", "_", "Type">>, <<"ECDSA">>>>,
                      <<<<"Key", "_", "Curve">>, <<"nistp256">>>>})),
      Some(CallerMap({<<<<"Name", "_", "Comment">>,
                        <<"x", "\n", "%no-protection">>>>})),
      Some(CallerMap({<<<<"Name", "_", "Comment">>,
                        <<"x", "\n", "Name-Real", ": ", "Evil">>>>})) }

\* key ids given to list_keys
OptKeyLists == {None, Some(<<"alice">>)}

\* the sources of the data to encrypt or decrypt: an open file, or a path
FileSources ==
    { [file |-> Some("fd3"), file_path |-> None],
      [file |-> None, file_path |-> Some(<<"/", "data", "/", "report", ".", "txt">>)] }

RecipientNames == <<"alice", "bob">>
OptRecipients ==
    {None} \cup {Some(SubSeq(RecipientNames, 1, n)) : n \in 0..MaxRecipients}

OptAlgos == {None, Some("AES256")}

\* an explicit output path
OptOutputs == {None, Some("/tmp/out/result.gpg")}

OptExtraArgs == {None, Some(<<"--verbose", "--no-tty">>)}
OptSignKeys == {None, Some("signer")}

\* the options the three constructors of EncryptOption build
PresetEncryptOptions ==
    {EncryptOption_default(f.file, f.file_path, r, o) :
        f \in FileSources, r \in OptRecipients, o \in OptOutputs}
    \cup
    {EncryptOption_with_symmetric(f.file, f.file_path, a, p, o) :
        f \in FileSources, a \in OptAlgos,
        p \in OptPassphrases \ {Some(<<"hunter2">>)}, o \in OptOutputs}
    \cup
    {EncryptOption_with_key_and_symmetric(f.file, f.file_path, r, a, p, o) :
        f \in FileSources, r \in OptRecipients, a \in OptAlgos,
        p \in OptPassphrases \ {Some(<<"hunter2">>)}, o \in OptOutputs}

\* options only code of the module can build: the fields no constructor sets
LiteralEncryptOptions ==
    {EncryptOption(None, Some(<<"/", "data", "/", "report", ".", "txt">>), r, s, k, sym, None,
                   t, p, o, e) :
        r \in {None, Some(<<"alice">>)}, s \in Booleans, k \in OptSignKeys,
        sym \in Booleans, t \in Booleans,
        p \in {None, Some(<<"hunter2">>)}, o \in OptOutputs, e \in OptExtraArgs}

EncryptOptions == PresetEncryptOptions \cup LiteralEncryptOptions

PresetDecryptOptions ==
    {DecryptOption_default(f.file, f.file_path, r, k, o) :
        f \in FileSources, r \in {None, Some("alice")}, k \in OptPassphrases,
        o \in OptOutputs}
    \cup
    {DecryptOption_with_symmetric(f.file, f.file_path, p, o) :
        f \in FileSources, p \in OptPassphrases, o \in OptOutputs}

\* every field of DecryptOption is private and the two constructors are the
\* only places that build one (lines 705-765): a request carries one
\* passphrase at most, trusts always and has no extra arguments
DecryptOptions == PresetDecryptOptions

\* the values set_option and set_env are called with
OptionLists == {<<"--no-greeting">>}
EnvMaps == {[LANG |-> "C"]}

----------------------------------------------------------------------------
(* The caller: one call at a time on the configuration it holds            *)

\* the record of a call that has returned
Returned(op, req, now, exists, orders, outcome, done) ==
    [op |-> op, req |-> req, now |-> now, exists |-> exists, orders |-> orders,
     calls |-> done.calls,
     returned |-> IF done.calls = <<>> THEN None ELSE Some(outcome),
     result |-> done.result]

Idle ==
    [op |-> "idle", req |-> <<>>, now |-> 0, exists |-> FALSE, orders |-> NoOrders,
     calls |-> <<>>, returned |-> None, result |-> Ok(<<>>)]

IdleProc == [pc |-> "idle"]

Init ==
    /\ gpg = None
    /\ init0 = None
    /\ last = Idle
    /\ procs = [p \in 1..NumProcs |-> IdleProc]
    /\ clock = 0

CallInit ==
    /\ last.op = "idle"
    /\ \E homedir \in InitHomedirs, output_dir \in InitOutputDirs, armor \in Booleans,
          outcome \in DriverOutcomes("Verify") :
         LET done == init(homedir, output_dir, armor, outcome)
         IN  /\ last' = Returned("init",
                                 [homedir |-> homedir, output_dir |-> output_dir,
                                  armor |-> armor],
                                 0, FALSE, NoOrders, outcome, done)
             /\ gpg' = IF done.result.ok THEN Some(done.result.value) ELSE gpg
             /\ init0' = IF done.result.ok THEN Some(done.result.value) ELSE init0
    /\ UNCHANGED <<procs, clock>>

CallGenKey ==
    /\ last.op = "idle"
    /\ IsSome(gpg)
    /\ \E key_passphrase \in OptPassphrases, args \in KeyArgs,
          outcome \in DriverOutcomes("GenerateKey") :
       \E orders \in KeyOrders(args) :
         last' = Returned("gen_key",
                          [key_passphrase |-> key_passphrase, args |-> args],
                          0, FALSE, orders, outcome,
                          gen_key(gpg[1], key_passphrase, args, orders, outcome))
    /\ UNCHANGED <<gpg, init0, procs, clock>>

CallListKeys ==
    /\ last.op = "idle"
    /\ IsSome(gpg)
    /\ \E secret \in Booleans, keys \in OptKeyLists, signature \in Booleans,
          outcome \in DriverOutcomes("ListKey") :
         last' = Returned("list_keys",
                          [secret |-> secret, keys |-> keys, signature |-> signature],
                          0, FALSE, NoOrders, outcome,
                          list_keys(gpg[1], secret, keys, signature, outcome))
    /\ UNCHANGED <<gpg, init0, procs, clock>>

\* whether a file exists at the explicit output path of an option
ExistsChoices(option) ==
    IF IsSome(option.output) THEN Booleans ELSE {FALSE}

\* the clock matters only when the output name is generated
ClockChoices(option) ==
    IF IsSome(option.output) THEN {0} ELSE Clock

CallEncrypt ==
    /\ last.op = "idle"
    /\ IsSome(gpg)
    /\ \E option \in EncryptOptions, outcome \in DriverOutcomes("Encrypt") :
       \E now \in ClockChoices(option), exists \in ExistsChoices(option) :
         last' = Returned("encrypt", option, now, exists, NoOrders, outcome,
                          encrypt(gpg[1], option, now, exists, outcome))
    /\ UNCHANGED <<gpg, init0, procs, clock>>

CallDecrypt ==
    /\ last.op = "idle"
    /\ IsSome(gpg)
    /\ \E option \in DecryptOptions, outcome \in DriverOutcomes("Decrypt") :
       \E now \in ClockChoices(option), exists \in ExistsChoices(option) :
         last' = Returned("decrypt", option, now, exists, NoOrders, outcome,
                          decrypt(gpg[1], option, now, exists, outcome))
    /\ UNCHANGED <<gpg, init0, procs, clock>>

\* a setter returns nothing and calls nothing
Set(op, req, self) ==
    /\ last' = Returned(op, req, 0, FALSE, NoOrders, Ok(<<>>), Done(<<>>, Ok(<<>>)))
    /\ gpg' = Some(self)
    /\ UNCHANGED <<init0, procs, clock>>

CallSetOption ==
    /\ last.op = "idle"
    /\ IsSome(gpg)
    /\ \E options \in OptionLists :
         Set("set_option", [options |-> options], set_option(gpg[1], options))

CallClearOption ==
    /\ last.op = "idle"
    /\ IsSome(gpg)
    /\ Set("clear_option", <<>>, clear_option(gpg[1]))

CallSetEnv ==
    /\ last.op = "idle"
    /\ IsSome(gpg)
    /\ \E env \in EnvMaps : Set("set_env", [env |-> env], set_env(gpg[1], env))

CallClearEnv ==
    /\ last.op = "idle"
    /\ IsSome(gpg)
    /\ Set("clear_env", <<>>, clear_env(gpg[1]))

\* TrustLevel::value called on two levels, to compare them
CallTrustLevelValue ==
    /\ last.op = "idle"
    /\ \E a \in TrustLevel, b \in TrustLevel :
         last' = Returned("value", <<a, b>>, 0, FALSE, NoOrders, Ok(<<>>),
                          Done(<<>>, Ok(<<TrustLevel_value(a), TrustLevel_value(b)>>)))
    /\ UNCHANGED <<gpg, init0, procs, clock>>

\* the caller is done with the value the call returned
Consume ==
    /\ last.op # "idle"
    /\ last' = Idle
    /\ UNCHANGED <<gpg, init0, procs, clock>>

Next ==
    \/ CallInit
    \/ CallGenKey
    \/ CallListKeys
    \/ CallEncrypt
    \/ CallDecrypt
    \/ CallSetOption
    \/ CallClearOption
    \/ CallSetEnv
    \/ CallClearEnv
    \/ CallTrustLevelValue
    \/ Consume

Spec == Init /\ [][Next]_vars

----------------------------------------------------------------------------
(* Concurrent invocations on one shared configuration.  An invocation      *)
(* takes &self: it validates its request, builds its arguments (reading    *)
(* the configuration and the clock), hands the call to the driver (reading *)
(* the configuration again), and returns when the driver returns.  The     *)
(* setters take &mut self.                                                 *)

Procs == 1..NumProcs

\* the requests of the concurrent invocations
ConcRequests ==
    {[op |-> "gen_key", req |-> [key_passphrase |-> k, args |-> None]] :
        k \in {Some(<<"hunter2">>)}}
    \cup
    {[op |-> "list_keys", req |-> [secret |-> FALSE, keys |-> None,
                                   signature |-> FALSE]]}
    \cup
    {[op |-> "encrypt", req |-> o] :
        o \in {EncryptOption_default(Some("fd3"), None, r, None) :
                 r \in {None, Some(<<"alice">>)}}}
    \cup
    {[op |-> "encrypt", req |-> o] :
        o \in {EncryptOption_default(Some("fd3"), None, Some(<<"alice">>),
                                     Some("/tmp/out/result.gpg"))}}
    \cup
    {[op |-> "decrypt", req |-> o] :
        o \in {DecryptOption_with_symmetric(Some("fd3"), None, k,
                                            Some("/tmp/out/result.gpg")) :
                 k \in {Some(<<"hunter2">>), Some(<<"bad", "\n", "phrase">>)}}}

\* the configurations init returns for the probe of a 2.4.6 tool
ConcConfigs ==
    {init(None, Some(<<"/", "tmp", "/", "out">>), armor,
          Ok(CmdResult(TRUE, <<VersionLine(<<2, 4, 6>>)>>, <<>>, "Verify"))).result.value :
        armor \in {TRUE}}

ConcInit ==
    /\ gpg \in {Some(c) : c \in ConcConfigs}
    /\ init0 = gpg
    /\ last = Idle
    /\ procs = [p \in Procs |-> IdleProc]
    /\ clock = 0

\* the setters taking &self: they run whatever the invocations are doing
Unguarded == TRUE

\* lines 569-583: a method taking &mut self runs only while no invocation
\* holds &self
Exclusive == \A p \in Procs : procs[p].pc = "idle"

\* the check every invocation starts with, Some(error) when it fails
Check(op, req) ==
    CASE op = "gen_key" -> GenKeyCheck(req.key_passphrase)
      [] op = "encrypt" -> EncryptCheck(req)
      [] op = "decrypt" -> DecryptCheck(req)
      [] OTHER -> None

\* the arguments (for gen_key, the key parameters) an invocation builds on
\* configuration self at clock reading now, exists telling whether the
\* explicit output path exists, as a Result
Build(self, op, req, now, exists, orders) ==
    CASE op = "gen_key" ->
           Ok(gen_key_input(self, req.args, req.key_passphrase, orders))
      [] op = "list_keys" ->
           Ok(ListKeysArgs(self, req.secret, req.keys, req.signature))
      [] op = "encrypt" -> EncryptArgs(self, req, now, exists)
      [] op = "decrypt" -> Ok(DecryptArgs(self, req, now, exists))

\* the driver call an invocation makes on configuration self for what it built
Call(self, op, req, built) ==
    CASE op = "gen_key" -> GenKeyCall(self, req.key_passphrase, built)
      [] op = "list_keys" -> ListKeysCall(self, built)
      [] op = "encrypt" -> EncryptCall(self, req, built)
      [] op = "decrypt" -> DecryptCall(self, req, built)

\* an invocation starts: it checks its passphrase, which reads nothing but
\* its own request, and returns at once when the check fails
Begin(p) ==
    /\ procs[p].pc = "idle"
    /\ \E r \in ConcRequests :
         procs' = [procs EXCEPT ![p] =
                     IF IsSome(Check(r.op, r.req))
                     THEN IdleProc
                     ELSE [pc |-> "build", op |-> r.op, req |-> r.req,
                           self0 |-> gpg[1], seen |-> <<>>, now |-> 0,
                           exists |-> FALSE, orders |-> NoOrders,
                           calls |-> <<>>]]
    /\ UNCHANGED <<gpg, init0, last, clock>>

\* the invocation reads the configuration for its arguments and, in encrypt
\* and decrypt, either asks whether the explicit output path exists (lines
\* 422-424, 543-544) or reads the clock for the name it generates
BuildArgs(p) ==
    /\ procs[p].pc = "build"
    /\ LET named == procs[p].op \in {"encrypt", "decrypt"}
        outputs == IF named THEN ExistsChoices(procs[p].req) ELSE {FALSE}
        reading == IF named /\ IsNone(procs[p].req.output) THEN clock ELSE 0
       IN  \E exists \in outputs :
             procs' = [procs EXCEPT ![p] =
                         [@ EXCEPT !.pc = "spawn", !.seen = Some(gpg[1]),
                                   !.now = reading, !.exists = exists]]
    /\ UNCHANGED <<gpg, init0, last, clock>>

\* the invocation finishes its arguments from what it read (gen_key in the
\* orders its own maps iterate in) and hands the call to the driver, reading
\* the configuration again; it returns at once when the arguments are refused
Spawn(p) ==
    /\ procs[p].pc = "spawn"
    /\ \E orders \in RunOrders(procs[p].op, procs[p].req) :
         LET b == Build(procs[p].seen[1], procs[p].op, procs[p].req, procs[p].now,
                        procs[p].exists, orders)
         IN  procs' = [procs EXCEPT ![p] =
                         IF b.ok
                         THEN [@ EXCEPT !.pc = "running", !.orders = orders,
                                        !.calls = <<Call(gpg[1], procs[p].op,
                                                         procs[p].req, b.value)>>]
                         ELSE IdleProc]
    /\ UNCHANGED <<gpg, init0, last, clock>>

\* the driver returns and the invocation returns to its caller
Finish(p) ==
    /\ procs[p].pc = "running"
    /\ procs' = [procs EXCEPT ![p] = IdleProc]
    /\ UNCHANGED <<gpg, init0, last, clock>>

Tick ==
    /\ clock < MaxClock - 1
    /\ clock' = clock + 1
    /\ UNCHANGED <<gpg, init0, last, procs>>

ConcSetOption ==
    /\ Exclusive
    /\ \E options \in OptionLists : gpg' = Some(set_option(gpg[1], options))
    /\ UNCHANGED <<init0, last, procs, clock>>

ConcClearOption ==
    /\ Exclusive
    /\ gpg' = Some(clear_option(gpg[1]))
    /\ UNCHANGED <<init0, last, procs, clock>>

ConcSetEnv ==
    /\ Exclusive
    /\ \E env \in EnvMaps : gpg' = Some(set_env(gpg[1], env))
    /\ UNCHANGED <<init0, last, procs, clock>>

ConcClearEnv ==
    /\ Exclusive
    /\ gpg' = Some(clear_env(gpg[1]))
    /\ UNCHANGED <<init0, last, procs, clock>>

ConcNext ==
    \/ \E p \in Procs : Begin(p)
    \/ \E p \in Procs : BuildArgs(p)
    \/ \E p \in Procs : Spawn(p)
    \/ \E p \in Procs : Finish(p)
    \/ Tick
    \/ ConcSetOption
    \/ ConcClearOption
    \/ ConcSetEnv
    \/ ConcClearEnv

ConcSpec == ConcInit /\ [][ConcNext]_vars

----------------------------------------------------------------------------
(* Properties                                                              *)

\* a configuration whose version the probe gave
Probed == IsSome(gpg) /\ gpg[1].full_version # ""

\* the configuration the call that has just returned ran on: gen_key,
\* list_keys, encrypt and decrypt take &self and leave it as it was
Self == gpg[1]

\* the operation of the call that has just returned, run again on request req
\* with its maps iterating in the orders s; only the driver calls of the result are looked at
Rerun(req, s) ==
    CASE last.op = "gen_key" ->
           gen_key(Self, req.key_passphrase, req.args, s, Err("", "", None))
      [] last.op = "encrypt" ->
           encrypt(Self, req, last.now, last.exists, Err("", "", None))
      [] last.op = "decrypt" ->
           decrypt(Self, req, last.now, last.exists, Err("", "", None))

IsValidSome(p) == IsSome(p) /\ is_passphrase_valid(p[1])

\* the requests that differ from the one just served only in the value of a
\* supplied valid passphrase
Twins ==
    CASE last.op = "gen_key" ->
           IF IsValidSome(last.req.key_passphrase)
           THEN {[last.req EXCEPT !.key_passphrase = Some(q)] : q \in ValidPassphrases}
           ELSE {}
      [] last.op = "encrypt" ->
           IF IsValidSome(last.req.passphrase)
           THEN {[last.req EXCEPT !.passphrase = Some(q)] : q \in ValidPassphrases}
           ELSE {}
      [] last.op = "decrypt" ->
           (IF IsValidSome(last.req.key_passphrase)
            THEN {[last.req EXCEPT !.key_passphrase = Some(q)] :
                    q \in ValidPassphrases}
            ELSE {})
           \cup
           (IF IsValidSome(last.req.passphrase)
            THEN {[last.req EXCEPT !.passphrase = Some(q)] : q \in ValidPassphrases}
            ELSE {})
      [] OTHER -> {}

\* two driver calls that differ at most in the passphrase parameter
SameButPassphrase(c, d) == [c EXCEPT !.passphrase = d.passphrase] = d

\* C1 as stated: the passphrase never flows into the command line or the
\* standard-input data. Whatever valid passphrase a gen_key, encrypt or
\* decrypt request carries, at the same clock reading the driver is handed
\* the same argument sequence and, for gen_key, the same key-generation
\* input text; the calls differ in the passphrase parameter only.
C1_PassphraseOnlyInItsParameter ==
    Probed => \A req \in Twins : \A s \in RunOrders(last.op, req) :
        LET twin == Rerun(req, s).calls
        IN  /\ Len(twin) = Len(last.calls)
            /\ \A i \in 1..Len(twin) : SameButPassphrase(twin[i], last.calls[i])

\* C1 amended: the passphrase never flows into the command line or the
\* standard-input data. For two requests that differ only in the value of a
\* supplied valid passphrase, at the same clock reading and with the maps of
\* gen_key iterating in the same order in both runs, the driver is handed
\* the same argument sequence and, for gen_key, the same key-generation
\* input text; the calls differ in the passphrase parameter only.
C1_PassphraseOnlyInItsParameterGivenMapOrder ==
    \A req \in Twins :
        LET twin == Rerun(req, last.orders).calls
        IN  /\ Len(twin) = Len(last.calls)
            /\ \A i \in 1..Len(twin) : SameButPassphrase(twin[i], last.calls[i])

\* a gen_key request with a valid passphrase and a caller's map reached the driver
C1_Witness ==
    /\ last.op = "gen_key"
    /\ IsValidSome(last.req.key_passphrase)
    /\ IsSome(last.req.args)
    /\ last.orders[1] # <<>>
    /\ last.orders[2][1] = "Name-Email"
    /\ Len(last.calls) = 1
    /\ last.calls[1].passphrase = last.req.key_passphrase

\* the passphrases a request supplies
Supplied ==
    CASE last.op = "gen_key" -> {last.req.key_passphrase} \ {None}
      [] last.op = "encrypt" -> {last.req.passphrase} \ {None}
      [] last.op = "decrypt" ->
           {last.req.key_passphrase, last.req.passphrase} \ {None}
      [] OTHER -> {}

\* the mode-selection check of encrypt fails: symmetric encryption without a
\* passphrase, or neither symmetric encryption nor recipients
ModeCheckFails ==
    /\ last.op = "encrypt"
    /\ \/ last.req.symmetric /\ IsNone(last.req.passphrase)
       \/ ~last.req.symmetric /\ IsNone(last.req.recipients)

ReturnedErrorWithoutDriver == ~last.result.ok /\ last.calls = <<>>

\* C2: in gen_key, encrypt and decrypt the validation of every
\* passphrase the request supplies and (encrypt) the mode-selection check
\* come before the process is spawned: when one of them fails the
\* operation returns an error and the driver is never invoked.
C2_ChecksBeforeSpawn ==
    last.op \in {"gen_key", "encrypt", "decrypt"} =>
        ((\E p \in Supplied : ~is_passphrase_valid(p[1])) \/ ModeCheckFails
            => ReturnedErrorWithoutDriver)

\* decrypt was asked to forward an invalid symmetric passphrase and refused
C2_Witness ==
    /\ last.op = "decrypt"
    /\ IsNone(last.req.key_passphrase)
    /\ IsSome(last.req.passphrase)
    /\ ~is_passphrase_valid(last.req.passphrase[1])
    /\ ReturnedErrorWithoutDriver
    /\ last.result.error_type = "PassphraseError"

\* C3: an encrypt request with symmetric = true and no passphrase returns a
\* PassphraseError, whatever its other fields are, and the driver is never
\* invoked.
C3_SymmetricNeedsPassphrase ==
    last.op = "encrypt" /\ last.req.symmetric /\ IsNone(last.req.passphrase) =>
        /\ ~last.result.ok
        /\ last.result.error_type = "PassphraseError"
        /\ last.calls = <<>>

\* such a request, with recipients and a signing key, was refused
C3_Witness ==
    /\ last.op = "encrypt"
    /\ last.req.symmetric
    /\ IsNone(last.req.passphrase)
    /\ IsSome(last.req.recipients)
    /\ last.req.sign
    /\ ~last.result.ok
    /\ last.result.error_type = "PassphraseError"

\* C4: the key-generation input text has a "Key-Type: ..." line as its
\* first line and "%commit" as its last line, and it has a "%no-protection"
\* line if and only if no passphrase was supplied.
C4_KeyInputShape ==
    Probed /\ last.op = "gen_key" /\ last.calls # <<>> =>
        LET lines == Lines(last.calls[1].byte_input[1])
        IN  /\ Len(lines) >= 2
            /\ Len(lines[1]) >= 2
            /\ lines[1][1] = "Key-Type"
            /\ lines[1][2] = ": "
            /\ Join(lines[Len(lines)]) = "%commit"
            /\ (\E i \in 1..Len(lines) : Join(lines[i]) = "%no-protection")
                 <=> IsNone(last.req.key_passphrase)

\* C5: when the probe completes and its output has no version field that
\* can be located and parsed, init returns a GPGInitError and no
\* configuration object.
C5_NoVersionIsInitError ==
    /\ last.op = "init"
    /\ last.calls # <<>>
    /\ last.returned[1].ok
    /\ ~HasVersion(last.returned[1].value)
    => /\ ~last.result.ok
       /\ last.result.error_type = "GPGInitError"

DriverOps == {"init", "gen_key", "list_keys", "encrypt", "decrypt"}

\* C6: no operation retries. A call of init, gen_key, list_keys, encrypt or
\* decrypt invokes the driver at most once, and when that invocation fails
\* the call returns an error.
C6_NoRetry ==
    last.op \in DriverOps =>
        /\ Len(last.calls) <= 1
        /\ (last.calls # <<>> /\ ~last.returned[1].ok => ~last.result.ok)

\* encrypt invoked the driver once, the invocation failed, encrypt returned an error
C6_Witness ==
    /\ last.op = "encrypt"
    /\ Len(last.calls) = 1
    /\ ~last.returned[1].ok
    /\ ~last.result.ok

\* C7: an error the driver returns is what the operation returns: the same
\* error kind, the same message, the same attached CmdResult.
C7_DriverErrorVerbatim ==
    last.op \in DriverOps /\ last.calls # <<>> /\ ~last.returned[1].ok =>
        last.result = last.returned[1]

\* list_keys returned the driver's process error with its CmdResult attached
C7_Witness ==
    /\ last.op = "list_keys"
    /\ last.calls # <<>>
    /\ ~last.returned[1].ok
    /\ last.returned[1].error_type = "GPGProcessError"
    /\ IsSome(last.result.cmd_result)
    /\ last.result = last.returned[1]

\* what invocation p hands to the driver when it runs alone: the operation
\* run in one piece on the configuration p started on, at p's clock reading
\* and with the answer p got about its output path
Alone(p) ==
    LET q == procs[p]
        unused == Err("", "", None)
    IN  CASE q.op = "gen_key" ->
               gen_key(q.self0, q.req.key_passphrase, q.req.args, q.orders, unused)
          [] q.op = "list_keys" ->
               list_keys(q.self0, q.req.secret, q.req.keys, q.req.signature, unused)
          [] q.op = "encrypt" -> encrypt(q.self0, q.req, q.now, q.exists, unused)
          [] q.op = "decrypt" -> decrypt(q.self0, q.req, q.now, q.exists, unused)

\* C8: invocations share no mutable state. While an invocation of gen_key,
\* list_keys, encrypt or decrypt is under way the configuration is the one
\* it started on, and in every interleaving the arguments, passphrase,
\* input and operation tag it hands to the driver are those it hands over
\* when it runs alone (an invocation that is refused hands over nothing and
\* has returned).
C8_InvocationsIsolated ==
    \A p \in Procs :
        procs[p].pc # "idle" =>
            /\ gpg[1] = procs[p].self0
            /\ procs[p].pc = "running" =>
                 procs[p].calls = Alone(p).calls

\* two invocations under way at once on a configuration whose options were
\* set: an encrypt that read the clock earlier and has handed its call to
\* the driver, and a decrypt that found its output path existing
C8_Witness ==
    /\ procs[1].pc = "running"
    /\ procs[2].pc = "spawn"
    /\ procs[1].op = "encrypt"
    /\ procs[2].op = "decrypt"
    /\ procs[2].exists
    /\ procs[1].now # clock
    /\ IsSome(gpg[1].options)
    /\ procs[1].calls[1].options = gpg[1].options

\* the fields of a configuration that init fixes
Fixed(g) == <<g.version, g.full_version, g.homedir, g.output_dir, g.armor>>

\* C9: after any sequence of calls the version, full_version, homedir,
\* output_dir and armor flag of the configuration are those init gave it;
\* set_option and clear_option change only the options field, set_env and
\* clear_env change only the env field, and gen_key, list_keys, encrypt and
\* decrypt change nothing.
C9_ConfigurationFrame ==
    /\ [](IsSome(gpg) => Fixed(gpg[1]) = Fixed(init0[1]))
    /\ [][/\ last'.op \in {"set_option", "clear_option"} =>
               [gpg'[1] EXCEPT !.options = gpg[1].options] = gpg[1]
          /\ last'.op \in {"set_env", "clear_env"} =>
               [gpg'[1] EXCEPT !.env = gpg[1].env] = gpg[1]
          /\ last'.op \in {"gen_key", "list_keys", "encrypt", "decrypt"} =>
               gpg' = gpg]_vars

\* clear_env has returned on a configuration whose options had been set
C9_Witness ==
    /\ last.op = "clear_env"
    /\ IsSome(gpg[1].options)
    /\ IsNone(gpg[1].env)
    /\ gpg[1].options # init0[1].options
    /\ Fixed(gpg[1]) = Fixed(init0[1])

\* a directory path without the separator it may end with
StripSeparator(dir) ==
    IF dir # <<>> /\ dir[Len(dir)] = "/" THEN SubSeq(dir, 1, Len(dir) - 1) ELSE dir

\* the value that follows --output in an argument sequence
OutputValue(args) ==
    args[1 + CHOOSE i \in 1..Len(args) :
                 args[i] = "--output" /\ \A j \in 1..(i - 1) : args[j] # "--output"]

\* the encrypt_type of C10 for a request
ClaimedEncryptType(req) ==
    IF req.symmetric /\ IsNone(req.recipients) THEN "pass_"
    ELSE IF ~req.symmetric /\ IsSome(req.recipients) THEN "keys_"
    ELSE "pass_" \o "keys_"

\* C10: without an explicit output path the --output value of encrypt is
\* <output_dir>/<encrypt_type>_encrypted_file_<timestamp>.<ext>, with
\* encrypt_type pass_, keys_ or pass_keys_, and that of decrypt is
\* <output_dir>/decrypted_file_<timestamp>.<ext>.
C10_DefaultOutputName ==
    /\ Probed
    /\ last.op \in {"encrypt", "decrypt"}
    /\ IsNone(last.req.output)
    /\ last.calls # <<>>
    => OutputValue(last.calls[1].cmd_args[1]) =
         Join(StripSeparator(Self.output_dir)) \o "/"
         \o (IF last.op = "encrypt"
             THEN ClaimedEncryptType(last.req) \o "_encrypted_file_"
             ELSE "decrypted_file_")
         \o time_stamp(last.now) \o "." \o get_file_extension(last.req.file_path)

\* the argument sequence the call that has just returned handed to the driver
BuiltArgs == last.calls[1].cmd_args[1]

\* the argument sequence the builder generates for the request just served
\* when its extra arguments are taken away
GeneratedArgs ==
    Rerun([last.req EXCEPT !.extra_args = None], last.orders).calls[1].cmd_args[1]


\* the elements of a sequence
Range(seq) == {seq[i] : i \in 1..Len(seq)}

\* C12: list_keys passes --with-keygrip to the external tool if and only if
\* the version of the configuration is at least 2.1; for every version
\* below 2.1 the flag is absent from the argument sequence.
C12_KeygripFromVersion ==
    last.op = "list_keys" /\ last.calls # <<>> =>
        ("--with-keygrip" \in Range(BuiltArgs) <=> Self.version >= 210)

\* list_keys has run on a configuration of version 2.1 exactly, for given
\* key ids, and asked for the keygrip
C12_Witness ==
    /\ last.op = "list_keys"
    /\ last.calls # <<>>
    /\ Self.version = 210
    /\ IsSome(last.req.keys)
    /\ "--with-keygrip" \in Range(BuiltArgs)

\* the order C13 states, lowest first
StatedTrustOrder ==
    <<"Expired", "Undefined", "Never", "Marginal", "Fully", "Ultimate">>

\* the place of a level in the stated order
Place(level) == CHOOSE i \in 1..Len(StatedTrustOrder) : StatedTrustOrder[i] = level

\* C13: TrustLevel is totally ordered as Expired < Undefined < Never <
\* Marginal < Fully < Ultimate: value gives each variant a distinct number
\* (a u8) and is strictly increasing along that order, so comparing two
\* levels by value agrees with the stated order for every pair.
C13_TrustLevelOrder ==
    last.op = "value" =>
        LET a == last.req[1]
            b == last.req[2]
            va == last.result.value[1]
            vb == last.result.value[2]
        IN  /\ va \in 0..255 /\ vb \in 0..255
            /\ (va = vb) <=> (a = b)
            /\ (va < vb) <=> (Place(a) < Place(b))

\* value has been taken of Marginal and of Never, the higher level first
C13_Witness ==
    /\ last.op = "value"
    /\ last.req = <<"Marginal", "Never">>
    /\ last.result.value[1] > last.result.value[2]

\* the decrypt that has just returned, run again without the symmetric
\* passphrase of its request
WithoutSymmetricPassphrase == Rerun([last.req EXCEPT !.passphrase = None], last.orders)

\* C14: decrypt forwards at most one passphrase to the driver: the key
\* passphrase when one is supplied, otherwise the symmetric passphrase,
\* otherwise none; the forwarded passphrase has always passed validation;
\* and when both are supplied the symmetric passphrase is neither validated
\* nor forwarded: the call does what it does without it.
C14_DecryptForwardsOnePassphrase ==
    last.op = "decrypt" =>
        LET k_p == last.req.key_passphrase
            p == last.req.passphrase
        IN  /\ Len(last.calls) <= 1
            /\ last.calls # <<>> =>
                  /\ last.calls[1].passphrase =
                       (IF IsSome(k_p) THEN k_p ELSE IF IsSome(p) THEN p ELSE None)
                  /\ IsSome(last.calls[1].passphrase) =>
                       is_passphrase_valid(last.calls[1].passphrase[1])
            /\ IsSome(k_p) /\ IsSome(p) =>
                  /\ is_passphrase_valid(k_p[1]) => last.calls # <<>>
                  /\ last.calls = WithoutSymmetricPassphrase.calls
                  /\ last.calls = <<>> =>
                       last.result = WithoutSymmetricPassphrase.result

\* decrypt was given a symmetric passphrase and no key passphrase, and
\* handed the symmetric passphrase, which is valid, to the driver
C14_Witness ==
    /\ last.op = "decrypt"
    /\ IsNone(last.req.key_passphrase)
    /\ IsValidSome(last.req.passphrase)
    /\ Len(last.calls) = 1
    /\ last.calls[1].passphrase = last.req.passphrase

\* the directory init resolves an optional path to: the path when one is
\* given and not empty, the default otherwise
Resolved(path, default) == IF IsSome(path) /\ path[1] # <<>> THEN path[1] ELSE default

\* init returned an error of the kind given, with no process spawned, no
\* CmdResult attached and no configuration object produced
InitRefused(error_type) ==
    /\ ~last.result.ok
    /\ last.result.error_type = error_type
    /\ last.result.cmd_result = None
    /\ last.calls = <<>>
    /\ gpg = None

\* C15: init checks both resolved directories before the probe is spawned:
\* when the home directory is not a directory it returns a HomedirError,
\* and when the output directory is not a directory an OutputDirError; in
\* both cases no process is spawned, no CmdResult is attached and no
\* configuration object is produced.
C15_InitDirectoryErrors ==
    last.op = "init" /\ init0 = None =>
        LET h_d == Resolved(last.req.homedir, get_or_create_gpg_homedir)
            o_d == Resolved(last.req.output_dir, get_or_create_gpg_output_dir)
        IN  /\ ~check_is_dir(h_d) => InitRefused("HomedirError")
            /\ check_is_dir(h_d) /\ ~check_is_dir(o_d) => InitRefused("OutputDirError")

\* the parameter names the caller of the gen_key that has just returned
\* gave, "_" replaced by "-"
GivenNames ==
    IF IsSome(last.req.args)
    THEN {Join(ReplaceUnderscore(k)) : k \in DOMAIN last.req.args[1]}
    ELSE {}

\* the values the caller gave for a parameter name, trimmed
GivenValues(name) ==
    {Trim(last.req.args[1][k]) :
        k \in {x \in DOMAIN last.req.args[1] : Join(ReplaceUnderscore(x)) = name}}

\* a Text holds a piece as a run of consecutive characters
Contains(text, piece) ==
    \E i \in 1..(Len(text) - Len(piece) + 1) :
        SubSeq(text, i, i + Len(piece) - 1) = piece

\* the lines of the key-generation input text handed to the driver
KeyInputLines == Lines(last.calls[1].byte_input[1])

\* the lines "name: ..." of the text, by their numbers
LinesOf(name) ==
    {i \in 1..Len(KeyInputLines) :
        /\ Len(KeyInputLines[i]) >= 2
        /\ KeyInputLines[i][1] = name
        /\ KeyInputLines[i][2] = ": "}

\* the value the text gives on a line "name: value"
ValueOn(i) == SubSeq(KeyInputLines[i], 3, Len(KeyInputLines[i]))

\* the text has the line "name: value"
HasLine(name, value) == \E i \in LinesOf(name) : ValueOn(i) = value

\* C16: gen_key_input never overrides a parameter the caller supplied with
\* a default and emits each parameter name on exactly one line: Key-Type
\* defaults to RSA, Expire-Date to 0 and Name-Real to "AutoGenerated Key"
\* only when the caller gave none (caller keys matched with "_" replaced by
\* "-"), and a "Key-Length: 2048" line is added if and only if the caller
\* supplied neither Key-Length nor Key-Curve.
C16_KeyInputDefaults ==
    Probed /\ last.op = "gen_key" /\ last.calls # <<>> =>
        /\ \A i \in 1..Len(KeyInputLines) :
             Len(KeyInputLines[i]) >= 2 /\ KeyInputLines[i][2] = ": " =>
                 Cardinality(LinesOf(KeyInputLines[i][1])) = 1
        /\ \A name \in GivenNames :
             \E v \in GivenValues(name) :
                 Contains(last.calls[1].byte_input[1], <<name, ": ">> \o v \o <<"\n">>)
        /\ "Key-Type" \notin GivenNames => HasLine("Key-Type", <<"RSA">>)
        /\ "Expire-Date" \notin GivenNames => HasLine("Expire-Date", <<"0">>)
        /\ "Name-Real" \notin GivenNames =>
             HasLine("Name-Real", <<"AutoGenerated Key">>)
        /\ "Key-Length" \notin GivenNames =>
             IF "Key-Curve" \in GivenNames
             THEN LinesOf("Key-Length") = {}
             ELSE HasLine("Key-Length", <<"2048">>)

====
